---------------------------- MODULE Spec2Model ----------------------------
(***************************************************************************)
(* Model of the ASMD dataset utilities:                                    *)
(*   asmd/dataset_utils.py  chose_score_type, filter, get_score_mat,       *)
(*                          get_pedaling_mat                               *)
(*   asmd/utils.py          nframes, time2frame                            *)
(*   convert_gt.py          merge                                          *)
(* The corpus (Dataset object) is a heap object holding the path list, the *)
(* chunk map and the tree of datasets and songs with their `included`      *)
(* flags.  filter is one atomic action that runs the whole handler,        *)
(* including the point where it raises and leaves the object half-updated. *)
(***************************************************************************)
EXTENDS Integers, Sequences, FiniteSets, TLC

VARIABLES
    heap,       \* sequence of Dataset objects; heap[1] is the caller's corpus
    filtered,   \* filtered[r]: "no" (fresh), "yes" (every filter call on object
                \* r has returned) or "raised" (some call on it has raised)
    ret,        \* reference returned by the last filter call (0: none / raised)
    raised,     \* exception raised by the last call ("none" when it returned)
    lastOp      \* kind of the last call: "init", "inplace", "copy"

filterVars == <<heap, filtered, ret, raised, lastOp>>

VARIABLES
    scoreIn,    \* get_score_mat: dataset.get_gts(idx), one record per source,
                \* each holding the arrays of the chosen score type
    scoreCols,  \* the six columns built for each source (line 271)
    scoreMat,   \* the returned matrix, a sequence of rows
    scoreExc    \* "idle" before the call, "none" when it returned, else the
                \* exception

scoreVars == <<scoreIn, scoreCols, scoreMat, scoreExc>>

VARIABLES
    choseIn,    \* chose_score_type: [score_type, pitches]: the request and the
                \* number of pitches of gts[0] for each kind
    choseOut    \* the returned score type ("idle" before the call)

choseVars == <<choseIn, choseOut>>

VARIABLES
    mergeIn,    \* merge: the argument lists as passed
    mergeArgs,  \* the argument lists after the call (their records are shared
                \* with the result)
    mergeOut,   \* the returned list
    mergeExc    \* "idle" before the call, "none" when it returned, else the
                \* exception

mergeVars == <<mergeIn, mergeArgs, mergeOut, mergeExc>>

VARIABLES
    lastCrit    \* filter: <<c>>, the keyword arguments of the last call, in the
                \* scenario that records them (<<>> otherwise)

callVars == <<lastCrit>>

VARIABLES
    pedalIn,    \* get_pedaling_mat: [gts, dur, hop, winlen]: dataset.get_gts(idx),
                \* dataset.get_score_duration(idx) and the frame arguments
    pedalOut,   \* the returned list, one frame matrix per source
    pedalExc    \* "idle" before the call, "none" when it returned

pedalVars == <<pedalIn, pedalOut, pedalExc>>

vars == <<filterVars, scoreVars, choseVars, mergeVars, callVars, pedalVars>>

-----------------------------------------------------------------------------
(* Bounds of the corpus *)
NDatasets == 2
NSongs == 2

DatasetIds == 1..NDatasets

\* len(mydataset['songs']): the first dataset holds NSongs songs, the others
\* one song each
NumSongs(d) == IF d = 1 THEN NSongs ELSE 1
SongIds(d) == 1..NumSongs(d)

-----------------------------------------------------------------------------
(* The static content of the corpus tree: what filter reads and never       *)
(* writes.  A dataset's name is its index.                                  *)

\* mydataset['ensemble']
Ensemble(d) == d % 2 = 0

\* mydataset['ground_truth']: kind -> level; datasets 2, 5, ... have no
\* broad_alignment entry
GroundTruthKinds(d) ==
    IF d % 3 = 2 THEN {"precise_alignment"}
    ELSE {"precise_alignment", "broad_alignment"}

GroundTruthLevel(d, kind) ==
    IF kind = "precise_alignment" THEN (IF d % 3 = 2 THEN 2 ELSE 1)
    ELSE (IF d % 3 = 0 THEN 0 ELSE 1)

\* song['instruments']
Instruments(d, s) ==
    IF s % 2 = 1 THEN <<"piano">> ELSE <<"violin", "piano">>

\* song['composer'], a string as a sequence of characters
Composer(d, s) ==
    IF d % 2 = 1 THEN <<"b", "a", "c">> ELSE <<"a", "b", "c">>

\* song['groups']
Groups(d, s) ==
    IF s = 1 THEN {"train", "test"} ELSE {"train"}

\* "sources" in song.keys()
HasSources(d, s) == (d + s) % 2 = 1

-----------------------------------------------------------------------------
(* Helpers for Python built-ins *)

\* `needle in hay` for strings
IsSubstring(needle, hay) ==
    \E i \in 0..(Len(hay) - Len(needle)) :
        \A j \in 1..Len(needle) : hay[i + j] = needle[j]

\* list.index(x), 0-based; -1 stands for ValueError
ListIndex(list, x) ==
    IF \E i \in 1..Len(list) : list[i] = x
    THEN (CHOOSE i \in 1..Len(list) :
            list[i] = x /\ \A j \in 1..(i - 1) : list[j] # x) - 1
    ELSE -1

NoChunk == <<>>


-----------------------------------------------------------------------------
(* filter: the arguments *)

\* (sources, all, mixed) as passed by the caller
SelectionModes ==
    { [sources |-> FALSE, all |-> FALSE, mixed |-> TRUE],
      [sources |-> TRUE,  all |-> TRUE,  mixed |-> TRUE],
      [sources |-> TRUE,  all |-> FALSE, mixed |-> FALSE] }

InstrumentArgs == { <<>>, <<"piano">> }
EnsembleArgs == { "None", "True" }
ComposerArgs == { <<>>, <<"a", "c">> }
GroupArgs == { <<>>, <<"train", "test">> }
\* no allow-list, one name, or every name
DatasetArgs == { {} } \cup { {d} : d \in DatasetIds } \cup { DatasetIds }
GroundTruthArgs ==
    { <<>>,
      <<<<"broad_alignment", 1>>>>,
      <<<<"precise_alignment", 1>>, <<"broad_alignment", 1>>>> }

Criteria ==
    { [instruments |-> i, ensemble |-> e, mixed |-> m.mixed, sources |-> m.sources,
       all |-> m.all, composer |-> co, datasets |-> ds, groups |-> g,
       ground_truth |-> gt] :
        i \in InstrumentArgs, e \in EnsembleArgs, m \in SelectionModes,
        co \in ComposerArgs, ds \in DatasetArgs, g \in GroupArgs,
        gt \in GroundTruthArgs }

BoolStr(b) == IF b THEN "True" ELSE "False"

-----------------------------------------------------------------------------
(* filter: the handler, as a fold over datasets and songs.  The loop state  *)
(* st is the object being filtered plus the row cursor `end` and the        *)
(* exception that stopped the loop ("none" while it runs).                  *)

\* (mutant) the path list is not emptied at the start of a call
KeepPaths(paths) == paths

\* ret.paths = []
ClearPaths(paths) == <<>>

\* the song-level FLAG
SongFlag(st, c, d, s) ==
    /\ st.sincl[d][s]
    /\ (c.instruments # <<>> => c.instruments = Instruments(d, s))
    /\ (c.composer # <<>> => IsSubstring(c.composer, Composer(d, s)))
    /\ (c.groups # <<>> =>
            \A i \in 1..Len(c.groups) : c.groups[i] \in Groups(d, s))

\* ret.paths.append([mix, source, gts]); end += 1
AppendRow(st, c, d, s, sel, idx) ==
    [st EXCEPT !.paths = Append(@, [song |-> <<d, s>>, mix |-> c.mixed,
                                    sel |-> sel, idx |-> idx]),
               !.end = @ + 1]

\* song['included'] = False
ExcludeSong(st, d, s) == [st EXCEPT !.sincl[d][s] = FALSE]

\* the body of `for song in mydataset['songs']`
FilterSong(st, c, d, s) ==
    IF ~SongFlag(st, c, d, s) THEN ExcludeSong(st, d, s)
    ELSE IF c.sources /\ HasSources(d, s)
    THEN IF c.all THEN AppendRow(st, c, d, s, "all", 0)
         ELSE IF c.instruments = <<>>
              THEN [st EXCEPT !.exc = "IndexError"]
              ELSE LET idx == ListIndex(Instruments(d, s), c.instruments[1])
                   IN  IF idx < 0 THEN [st EXCEPT !.exc = "ValueError"]
                       ELSE AppendRow(st, c, d, s, "one", idx)
    ELSE AppendRow(st, c, d, s, "none", 0)

RECURSIVE FilterSongs(_, _, _, _)
FilterSongs(st, c, d, s) ==
    IF s > NumSongs(d) \/ st.exc # "none" THEN st
    ELSE FilterSongs(FilterSong(st, c, d, s), c, d, s + 1)

\* for gt, val in ground_truth: "ok", "mismatch" (FLAG = False; break) or
\* "KeyError" (mydataset['ground_truth'][gt] on an absent kind)
RECURSIVE GroundTruthCheck(_, _, _)
GroundTruthCheck(gts, d, i) ==
    IF i > Len(gts) THEN "ok"
    ELSE IF gts[i][1] \notin GroundTruthKinds(d) THEN "KeyError"
    ELSE IF GroundTruthLevel(d, gts[i][1]) # gts[i][2] THEN "mismatch"
    ELSE GroundTruthCheck(gts, d, i + 1)

\* the dataset-level FLAG before the ground-truth loop
DatasetFlag(st, c, d) ==
    /\ IF c.datasets # {} THEN d \in c.datasets ELSE st.dincl[d]
    /\ (c.ensemble # "None" => c.ensemble = BoolStr(Ensemble(d)))

\* (mutant) a dataset that passes is marked included again
OpenChunkAndInclude(st, d) ==
    [st EXCEPT !.chunks[d] = <<st.end, st.end>>, !.dincl[d] = TRUE]

\* ret._chunks[mydataset['name']] = [end, end]
OpenChunk(st, d) == [st EXCEPT !.chunks[d] = <<st.end, st.end>>]

\* ret._chunks[mydataset['name']][1] = end
CloseChunk(st, d) == [st EXCEPT !.chunks[d][2] = st.end]

\* mydataset['included'] = False
ExcludeDataset(st, d) == [st EXCEPT !.dincl[d] = FALSE]

\* the body of `for mydataset in ret.datasets`
FilterDataset(st, c, d) ==
    LET gt == GroundTruthCheck(c.ground_truth, d, 1) IN
    IF gt = "KeyError" THEN [st EXCEPT !.exc = "KeyError"]
    ELSE IF DatasetFlag(st, c, d) /\ gt = "ok"
    THEN LET st2 == FilterSongs(OpenChunk(st, d), c, d, 1)
         IN  IF st2.exc # "none" THEN st2 ELSE CloseChunk(st2, d)
    ELSE ExcludeDataset(st, d)

RECURSIVE FilterDatasets(_, _, _)
FilterDatasets(st, c, d) ==
    IF d > NDatasets \/ st.exc # "none" THEN st
    ELSE FilterDatasets(FilterDataset(st, c, d), c, d + 1)

\* filter(dataset, ..., copy=False) run on the object obj: the object as the
\* call leaves it, and the exception it raised
filter(obj, c) ==
    LET st == FilterDatasets(
                  [paths |-> ClearPaths(obj.paths), chunks |-> obj.chunks,
                   dincl |-> obj.dincl, sincl |-> obj.sincl,
                   end |-> 0, exc |-> "none"], c, 1)
    IN  [obj |-> [paths |-> st.paths, chunks |-> st.chunks,
                  dincl |-> st.dincl, sincl |-> st.sincl],
         exc |-> st.exc]

\* (mutant) ret = dataset: the "clone" is the caller's own object
aliascopy(h, r) == [heap |-> h, ref |-> r]

\* ret = deepcopy(dataset): the clone is a new object
deepcopy(h, r) == [heap |-> Append(h, h[r]), ref |-> Len(h) + 1]

-----------------------------------------------------------------------------
(* The corpus after construction: nothing filtered yet *)
FreshCorpus ==
    [paths |-> <<>>,
     chunks |-> [d \in DatasetIds |-> NoChunk],
     dincl |-> [d \in DatasetIds |-> TRUE],
     sincl |-> [d \in DatasetIds |-> [s \in SongIds(d) |-> TRUE]]]

InitFilter ==
    /\ heap = <<FreshCorpus>>
    /\ filtered = <<"no">>
    /\ ret = 0
    /\ raised = "none"
    /\ lastOp = [kind |-> "init", ref |-> 0]

InitScore ==
    /\ scoreIn = <<>>
    /\ scoreCols = <<>>
    /\ scoreMat = <<>>
    /\ scoreExc = "idle"

InitChose ==
    /\ choseIn = [score_type |-> <<>>, pitches |-> <<>>]
    /\ choseOut = "idle"

InitMerge ==
    /\ mergeIn = <<>>
    /\ mergeArgs = <<>>
    /\ mergeOut = <<>>
    /\ mergeExc = "idle"

InitCall == lastCrit = <<>>

InitPedal ==
    /\ pedalIn = <<>>
    /\ pedalOut = <<>>
    /\ pedalExc = "idle"

Init == InitFilter /\ InitScore /\ InitChose /\ InitMerge /\ InitCall /\ InitPedal

Status(before, exc) ==
    IF exc # "none" \/ before = "raised" THEN "raised" ELSE "yes"

\* filter(heap[r], **c), copy=False
FilterInPlace(r, c) ==
    LET res == filter(heap[r], c) IN
    /\ heap' = [heap EXCEPT ![r] = res.obj]
    /\ filtered' = [filtered EXCEPT ![r] = Status(@, res.exc)]
    /\ raised' = res.exc
    /\ ret' = IF res.exc = "none" THEN r ELSE 0
    /\ lastOp' = [kind |-> "inplace", ref |-> r]
    /\ UNCHANGED <<scoreVars, choseVars, mergeVars, callVars, pedalVars>>

\* the same call, with its keyword arguments kept for the properties that
\* relate the outcome to the criteria
FilterLogged(r, c) ==
    LET res == filter(heap[r], c) IN
    /\ heap' = [heap EXCEPT ![r] = res.obj]
    /\ filtered' = [filtered EXCEPT ![r] = Status(@, res.exc)]
    /\ raised' = res.exc
    /\ ret' = IF res.exc = "none" THEN r ELSE 0
    /\ lastOp' = [kind |-> "inplace", ref |-> r]
    /\ lastCrit' = <<c>>
    /\ UNCHANGED <<scoreVars, choseVars, mergeVars, pedalVars>>

\* filter(heap[1], **c, copy=True)
FilterCopy(c) ==
    LET cp == deepcopy(heap, 1)
        res == filter(cp.heap[cp.ref], c)
        after == [cp.heap EXCEPT ![cp.ref] = res.obj]
    IN  /\ heap' = IF res.exc = "none" THEN after
                   ELSE [i \in 1..Len(heap) |-> IF i = 1 THEN after[1] ELSE heap[i]]
        /\ filtered' = IF res.exc = "none"
                       THEN [i \in 1..Len(after) |->
                               IF i = cp.ref THEN Status(filtered[1], res.exc)
                               ELSE filtered[i]]
                       ELSE [i \in 1..Len(heap) |->
                               IF i = cp.ref THEN "raised" ELSE filtered[i]]
        /\ raised' = res.exc
        /\ ret' = IF res.exc = "none" THEN cp.ref ELSE 0
        /\ lastOp' = [kind |-> "copy", ref |-> 1]
        /\ UNCHANGED <<scoreVars, choseVars, mergeVars, callVars, pedalVars>>

Next == \E c \in Criteria : FilterInPlace(1, c)

Spec == Init /\ [][Next]_vars


\* The copy scenario: the caller filters the fresh corpus in place or leaves
\* it fresh, then takes a filtered clone of it (again, when the call raised) and
\* filters the clone in place.  Its calls
\* use no song-level text filters and no dataset-level attribute filters.
CopyCriteria ==
    { c \in Criteria : /\ c.composer = <<>> /\ c.groups = <<>>
                       /\ c.ground_truth = <<>> /\ c.ensemble = "None" }

NextCopy ==
    \/ \E c \in CopyCriteria : filtered = <<"no">> /\ FilterInPlace(1, c)
    \/ \E c \in CopyCriteria : Len(heap) = 1 /\ FilterCopy(c)
    \/ \E c \in CopyCriteria : Len(heap) = 2 /\ FilterInPlace(2, c)

SpecCopy == Init /\ [][NextCopy]_vars

\* The recorded scenario: the caller filters the fresh corpus in place, or
\* leaves it fresh, and then makes one more in-place call whose keyword
\* arguments are kept.
NextCall ==
    /\ lastCrit = <<>>
    /\ \/ \E c \in Criteria : filtered = <<"no">> /\ FilterInPlace(1, c)
       \/ \E c \in Criteria : FilterLogged(1, c)

SpecCall == Init /\ [][NextCall]_vars

-----------------------------------------------------------------------------
(* Properties of filter *)

\* the datasets that have an entry in the chunk map
Chunked(obj) == { d \in DatasetIds : obj.chunks[d] # NoChunk }

\* the songs that have a row in the path list
RowSongs(paths) == { paths[i].song : i \in 1..Len(paths) }

RECURSIVE SumWidths(_, _)
SumWidths(obj, ds) ==
    IF ds = {} THEN 0
    ELSE LET d == CHOOSE x \in ds : TRUE
         IN  (obj.chunks[d][2] - obj.chunks[d][1]) + SumWidths(obj, ds \ {d})

ChunksPartition(obj) ==
    LET n == Len(obj.paths)
        ds == Chunked(obj)
    IN  /\ \A d \in ds : 0 <= obj.chunks[d][1] /\ obj.chunks[d][1] <= obj.chunks[d][2]
                         /\ obj.chunks[d][2] <= n
        /\ \A i \in 0..(n - 1) :
              Cardinality({ d \in ds : obj.chunks[d][1] <= i /\ i < obj.chunks[d][2] }) = 1
        /\ \A d \in ds : obj.chunks[d][1] = 0
                         \/ \E e \in ds \ {d} : obj.chunks[e][2] = obj.chunks[d][1]
        /\ SumWidths(obj, ds) = n

\* C1: after any sequence of in-place filter calls the ranges of the chunk map
\* are contiguous, pairwise non-overlapping, cover [0, len(paths)) exactly and
\* their widths sum to len(paths).
C1_ChunksPartitionPaths == filtered[1] = "yes" => ChunksPartition(heap[1])

\* C2: for every corpus the calls can produce and every criteria, a second
\* in-place filter call with the same criteria leaves the path list and the
\* chunk map as the first call left them.
C2_RefilterIdempotent ==
    \A c \in Criteria :
        LET first == filter(heap[1], c)
            second == filter(first.obj, c)
        IN  /\ second.obj.paths = first.obj.paths
            /\ second.obj.chunks = first.obj.chunks

\* C2 witness: a call has returned a corpus with rows, an excluded song, an
\* excluded dataset and a chunk, on which the same call can be repeated.
C2_Witness ==
    /\ lastOp.kind = "inplace" /\ raised = "none"
    /\ Len(heap[1].paths) > 0
    /\ \E d \in DatasetIds : ~heap[1].dincl[d]
    /\ \E d \in DatasetIds : \E s \in SongIds(d) : heap[1].dincl[d] /\ ~heap[1].sincl[d][s]
    /\ \E c \in Criteria : filter(heap[1], c).obj.paths = heap[1].paths
                           /\ filter(heap[1], c).obj.paths # <<>>

\* C3: under in-place filter calls an `included` flag of a dataset or of a
\* song that is false never becomes true again.
C3_IncludedMonotonic ==
    [][\A r \in 1..Len(heap) :
         (lastOp'.kind = "inplace" /\ lastOp'.ref = r) =>
            \A d \in DatasetIds :
               /\ ~heap[r].dincl[d] => ~heap'[r].dincl[d]
               /\ \A s \in SongIds(d) : ~heap[r].sincl[d][s] => ~heap'[r].sincl[d][s]
      ]_filterVars

\* C3 witness: a dataset whose flag is false was named by the allow-list of a
\* call and has rows in the path list, and its flag is still false.
C3_Witness ==
    /\ lastOp.kind = "inplace" /\ raised = "none"
    /\ \E d \in DatasetIds :
          /\ ~heap[1].dincl[d]
          /\ \E i \in 1..Len(heap[1].paths) : heap[1].paths[i].song[1] = d

\* C4: on an already filtered corpus, every row of the path list of an
\* in-place call belongs to a song that had a row before the call.
C4_OnlyNarrowsRows ==
    [][(filtered[1] = "yes" /\ filtered'[1] = "yes"
            /\ lastOp'.kind = "inplace" /\ lastOp'.ref = 1) =>
          RowSongs(heap'[1].paths) \subseteq RowSongs(heap[1].paths)
      ]_filterVars

\* C5: filter with copy=True leaves the input corpus as it was, and a later
\* in-place filter on the returned corpus does not change the input either.
C5_CopyLeavesInput ==
    [][/\ lastOp'.kind = "copy" => heap'[1] = heap[1]
       /\ (lastOp'.kind = "inplace" /\ lastOp'.ref = 2) => heap'[1] = heap[1]
       /\ (lastOp'.kind = "copy" /\ raised' = "none") => ret' # 1
      ]_filterVars

\* C5 witness: the clone was returned by a copy call and then filtered in
\* place, and it now differs from the input in flags and rows.
C5_Witness ==
    /\ Len(heap) = 2 /\ lastOp.kind = "inplace" /\ lastOp.ref = 2
    /\ filtered[2] = "yes"
    /\ \E d \in DatasetIds : heap[1].dincl[d] /\ ~heap[2].dincl[d]
    /\ \E d \in DatasetIds : \E s \in SongIds(d) : heap[1].sincl[d][s] /\ ~heap[2].sincl[d][s]
    /\ heap[1].paths # heap[2].paths
    /\ heap[1].chunks # heap[2].chunks


-----------------------------------------------------------------------------
(* get_score_mat *)

\* Bounds of the ground truth handed to get_score_mat
MaxNotes == 3
MaxPairNotes == 1

\* the value the code writes for a missing cell
Sentinel == -255

OnsetValues == {0, 1}

Max(a, b) == IF a >= b THEN a ELSE b

SeqsUpTo(S, n) == UNION { [1..k -> S] : k \in 0..n }

\* The arrays of one source for the chosen score type, up to n values each.
\* Pitches, offsets and velocities are told apart by their position.
SourceRecords(n) ==
    { [pitches |-> [k \in 1..p |-> 60 + 2 * (k - 1)],
       onsets |-> ons,
       offsets |-> [k \in 1..f |-> 2 + k],
       velocities |-> [k \in 1..v |-> 80 + 10 * (k - 1)],
       instrument |-> 0] :
        p \in 0..n, ons \in SeqsUpTo(OnsetValues, n), f \in 0..n, v \in 0..n }

\* np.append(a, [-255] * k): nothing is appended when k <= 0
Pad(a, k) == IF k > 0 THEN a \o [j \in 1..k |-> Sentinel] ELSE a

\* np.full_like(a, v)
FullLike(a, v) == [j \in 1..Len(a) |-> v]

\* the body of `for i, gt in enumerate(gts)`: the six columns of source i
SourceColumns(gt, i) ==
    LET pitches0 == gt.pitches
        ons0 == IF Len(gt.onsets) = 0 THEN FullLike(pitches0, Sentinel)
                ELSE gt.onsets
        missing == Len(pitches0) - Len(ons0)
        pitches1 == IF missing < 0 THEN Pad(pitches0, -missing) ELSE pitches0
        ons1 == IF missing > 0 THEN Pad(ons0, missing) ELSE ons0
        offsA == Pad(gt.offsets, missing)
        offs1 == IF Len(offsA) = 0 THEN FullLike(ons1, Sentinel) ELSE offsA
        velA == Pad(gt.velocities, missing)
        vel1 == IF Len(velA) = 0 THEN FullLike(ons1, Sentinel) ELSE velA
        missing2 == Len(pitches1) - Len(vel1)
        pitches2 == IF missing2 < 0 THEN Pad(pitches1, -missing2) ELSE pitches1
        ons2 == IF missing2 < 0 THEN Pad(ons1, -missing2) ELSE ons1
        offs2 == IF missing2 < 0 THEN Pad(offs1, -missing2) ELSE offs1
        vel2 == IF missing2 > 0 THEN Pad(vel1, missing2) ELSE vel1
    IN  [pitches |-> pitches2, ons |-> ons2, offs |-> offs2, vel |-> vel2,
         instr |-> FullLike(ons2, gt.instrument), num |-> FullLike(ons2, i)]

\* np.array([pitches, ons, offs, vel, instr, num]) is a matrix only when the
\* six columns have one length
Rectangular(cols) ==
    /\ Len(cols.pitches) = Len(cols.ons)
    /\ Len(cols.offs) = Len(cols.ons)
    /\ Len(cols.vel) = Len(cols.ons)

\* one source's block, transposed: one row per note
Block(cols) ==
    [k \in 1..Len(cols.ons) |->
        <<cols.pitches[k], cols.ons[k], cols.offs[k], cols.vel[k],
          cols.instr[k], cols.num[k]>>]

\* np.concatenate(mat, axis=1), then mat.T
RECURSIVE Concatenate(_, _)
Concatenate(colsList, j) ==
    IF j > Len(colsList) THEN <<>>
    ELSE Block(colsList[j]) \o Concatenate(colsList, j + 1)

\* mat[:, 1].argsort(): numpy's default kind is not a stable sort, so the
\* result is any permutation that puts the onsets in non-decreasing order
ArgSorts(rows) ==
    { perm \in [1..Len(rows) -> 1..Len(rows)] :
        /\ \A a, b \in 1..Len(rows) : a # b => perm[a] # perm[b]
        /\ \A a, b \in 1..Len(rows) : a < b => rows[perm[a]][2] <= rows[perm[b]][2] }

\* get_score_mat(dataset, idx, score_type) on the ground truth gts
GetScoreMat(gts) ==
    LET cols == [j \in 1..Len(gts) |-> SourceColumns(gts[j], j - 1)]
        rows == Concatenate(cols, 1)
    IN  /\ scoreExc = "idle"
        /\ scoreIn' = gts
        /\ scoreCols' = cols
        /\ IF \A j \in 1..Len(cols) : Rectangular(cols[j])
           THEN \E perm \in ArgSorts(rows) :
                   /\ scoreMat' = [k \in 1..Len(rows) |-> rows[perm[k]]]
                   /\ scoreExc' = "none"
           ELSE \* ragged columns: np.array raises (older numpy: the indexing
                \* of line 275 or 281 does)
                /\ scoreMat' = <<>>
                /\ scoreExc' = "ValueError"
        /\ UNCHANGED <<filterVars, choseVars, mergeVars, callVars, pedalVars>>

\* dataset.get_gts(idx) holds one source with up to MaxNotes values per array,
\* or two sources with up to MaxPairNotes
NextScore ==
    /\ scoreExc = "idle"
    /\ \/ \E g \in SourceRecords(MaxNotes) : GetScoreMat(<<g>>)
       \/ \E g1 \in SourceRecords(MaxPairNotes) :
             \E g2 \in SourceRecords(MaxPairNotes) : GetScoreMat(<<g1, g2>>)

SpecScore == Init /\ [][NextScore]_vars

\* the cell k of a column that keeps the values of `orig` and is padded
Kept(col, orig, k) == col[k] = IF k <= Len(orig) THEN orig[k] ELSE Sentinel

\* C6: for every combination of lengths of pitches, onsets, offsets and
\* velocities the six columns of a source have one length, the maximum of the
\* four input lengths, keep every original value at its position and hold
\* -255 in every missing cell.
C6_ColumnsRectangular ==
    scoreExc # "idle" =>
        \A j \in 1..Len(scoreIn) :
            LET gt == scoreIn[j]
                cols == scoreCols[j]
                n == Max(Max(Len(gt.pitches), Len(gt.onsets)),
                         Max(Len(gt.offsets), Len(gt.velocities)))
            IN  /\ Len(cols.pitches) = n /\ Len(cols.ons) = n
                /\ Len(cols.offs) = n /\ Len(cols.vel) = n
                /\ Len(cols.instr) = n /\ Len(cols.num) = n
                /\ \A k \in 1..n : /\ Kept(cols.pitches, gt.pitches, k)
                                   /\ Kept(cols.ons, gt.onsets, k)
                                   /\ Kept(cols.offs, gt.offsets, k)
                                   /\ Kept(cols.vel, gt.velocities, k)

C7Input ==
    <<[pitches |-> <<60, 62>>, onsets |-> <<0>>, offsets |-> <<>>,
       velocities |-> <<80, 90, 100>>, instrument |-> 0]>>

\* C7: pitches=[60,62], onsets=[0.0], offsets=[], velocities=[80,90,100]
\* materialize to 3 rows with pitches=[60,62,-255], onsets=[0.0,-255,-255],
\* offsets=[-255,-255,-255].
C7_ExampleMatrix ==
    (scoreExc # "idle" /\ scoreIn = C7Input) =>
        /\ scoreExc = "none"
        /\ Len(scoreMat) = 3
        /\ scoreCols[1].pitches = <<60, 62, Sentinel>>
        /\ scoreCols[1].ons = <<0, Sentinel, Sentinel>>
        /\ scoreCols[1].offs = <<Sentinel, Sentinel, Sentinel>>

\* the rows of `rows` sorted by onset, equal onsets in their order in `rows`
RECURSIVE StableSort(_)
StableSort(rows) ==
    IF rows = <<>> THEN <<>>
    ELSE LET k == CHOOSE a \in 1..Len(rows) :
                     /\ \A b \in 1..Len(rows) : rows[a][2] <= rows[b][2]
                     /\ \A b \in 1..(a - 1) : rows[b][2] # rows[a][2]
         IN  <<rows[k]>> \o StableSort([j \in 1..(Len(rows) - 1) |->
                                          IF j < k THEN rows[j] ELSE rows[j + 1]])

\* C8: the rows of the returned matrix are in non-decreasing onset order, and
\* rows of equal onset are in ascending source index and, within a source, in
\* their original order.
C8_SortedStable ==
    scoreExc = "none" =>
        /\ \A a, b \in 1..Len(scoreMat) : a < b => scoreMat[a][2] <= scoreMat[b][2]
        /\ scoreMat = StableSort(Concatenate(scoreCols, 1))


-----------------------------------------------------------------------------
(* chose_score_type *)

\* Bound of the length of the requested list
MaxRequest == 2

ScoreTypes == {"precise_alignment", "broad_alignment", "misaligned", "score"}

Contains(list, x) == \E i \in 1..Len(list) : list[i] = x

\* (mutant) the availability check also runs for a single-entry request
chose_score_type_checked(score_type, gt0) ==
    IF Contains(score_type, "precise_alignment") /\ gt0["precise_alignment"] > 0
    THEN "precise_alignment"
    ELSE IF Contains(score_type, "broad_alignment") /\ gt0["broad_alignment"] > 0
    THEN "broad_alignment"
    ELSE IF Contains(score_type, "misaligned") /\ gt0["misaligned"] > 0
    THEN "misaligned"
    ELSE "score"

\* chose_score_type(score_type, gts); gt0[kind] is len(gts[0][kind]['pitches'])
chose_score_type(score_type, gt0) ==
    IF Len(score_type) > 1
    THEN IF Contains(score_type, "precise_alignment") /\ gt0["precise_alignment"] > 0
         THEN "precise_alignment"
         ELSE IF Contains(score_type, "broad_alignment") /\ gt0["broad_alignment"] > 0
         THEN "broad_alignment"
         ELSE IF Contains(score_type, "misaligned") /\ gt0["misaligned"] > 0
         THEN "misaligned"
         ELSE "score"
    ELSE score_type[1]

ChoseRequests == UNION { [1..k -> ScoreTypes] : k \in 1..MaxRequest }
ChosePitches == [ScoreTypes -> {0, MaxNotes}]

ChoseScoreType(score_type, gt0) ==
    /\ choseOut = "idle"
    /\ choseIn' = [score_type |-> score_type, pitches |-> gt0]
    /\ choseOut' = chose_score_type(score_type, gt0)
    /\ UNCHANGED <<filterVars, scoreVars, mergeVars, callVars, pedalVars>>

NextChose ==
    /\ choseOut = "idle"
    /\ \E score_type \in ChoseRequests : \E gt0 \in ChosePitches :
          ChoseScoreType(score_type, gt0)

SpecChose == Init /\ [][NextChose]_vars

\* the place of a kind in the order precise_alignment, broad_alignment,
\* misaligned
Rank(kind) ==
    IF kind = "precise_alignment" THEN 1
    ELSE IF kind = "broad_alignment" THEN 2 ELSE 3

-----------------------------------------------------------------------------
(* merge *)

\* Bounds of the arguments of merge
MaxArgs == 3
MaxLen == 2

\* the keys of the ground-truth prototype `gt` that every parser copies
Keys == {"pitches", "precise-alignment"}

\* Values: a leaf of a record (a parser's list of numbers, told apart by id),
\* a Python list of values, or a mapping {onsets, offsets}
Atom(id) == [tag |-> "atom", id |-> id, items |-> <<>>]
List(items) == [tag |-> "list", id |-> 0, items |-> items]
Dict(items) == [tag |-> "dict", id |-> 0, items |-> items]

\* the record parser k returns at position i, holding v notes
PartialRecord(k, i, v) ==
    [key \in Keys |->
        IF key = "pitches" THEN Atom(100 * k + 10 * i + v)
        ELSE Dict(<<Atom(100 * k + 10 * i + 5), Atom(100 * k + 10 * i + 6)>>)]

\* the lists parser k can return
RecordLists(k) ==
    UNION { { [i \in 1..n |-> PartialRecord(k, i, vs[i])] : vs \in [1..n -> {0, 1}] } :
            n \in 0..MaxLen }

RECURSIVE ArgTuples(_)
ArgTuples(n) ==
    IF n = 0 THEN { <<>> }
    ELSE { Append(front, last) : front \in ArgTuples(n - 1), last \in RecordLists(n) }

\* (mutant) only the second list is compared with the first
SecondLengthAgrees(args) == Len(args) < 2 \/ Len(args[2]) = Len(args[1])

\* all(len(x) == len(args[0]) for x in args[1:])
LengthsAgree(args) == \A a \in 2..Len(args) : Len(args[a]) = Len(args[1])

\* d1_element = [d1[key]]; d1_element.append(d2[key]); d1[key] = d1_element
\* (type(d1_element) is dict never holds: d1_element is a list)
MergeDicts(d1, d2) == [key \in DOMAIN d1 |-> List(<<d1[key], d2[key]>>)]

\* for i, d1 in enumerate(obj1_copy): for arg in args[1:]: ...
\* recs are the records of args[0], which obj1_copy shares
RECURSIVE MergeLoop(_, _, _, _)
MergeLoop(recs, args, i, a) ==
    IF i > Len(recs) THEN [recs |-> recs, exc |-> "none"]
    ELSE IF a > Len(args) THEN MergeLoop(recs, args, i + 1, 2)
    ELSE IF i > Len(args[a]) THEN [recs |-> recs, exc |-> "IndexError"]
    ELSE MergeLoop([recs EXCEPT ![i] = MergeDicts(@, args[a][i])], args, i, a + 1)

\* merge(*args): the returned list, the arguments as the call leaves them and
\* the exception
merge(args) ==
    IF ~LengthsAgree(args)
    THEN [out |-> <<>>, args |-> args, exc |-> "AssertionError"]
    ELSE IF Len(args) = 1
    THEN [out |-> args[1], args |-> args, exc |-> "none"]
    ELSE LET res == MergeLoop(args[1], args, 1, 2)
         IN  [out |-> IF res.exc = "none" THEN res.recs ELSE <<>>,
              args |-> [args EXCEPT ![1] = res.recs],
              exc |-> res.exc]

Merge(args) ==
    LET res == merge(args) IN
    /\ mergeExc = "idle"
    /\ mergeIn' = args
    /\ mergeArgs' = res.args
    /\ mergeOut' = res.out
    /\ mergeExc' = res.exc
    /\ UNCHANGED <<filterVars, scoreVars, choseVars, callVars, pedalVars>>

NextMerge ==
    /\ mergeExc = "idle"
    /\ \E n \in 1..MaxArgs : \E args \in ArgTuples(n) : Merge(args)

SpecMerge == Init /\ [][NextMerge]_vars

\* C10: merge of N >= 1 lists of one length L returns a list of length L; when
\* a list differs in length from the first, merge fails with the
\* length-mismatch error and no input record has been modified.
C10_MergeLengths ==
    mergeExc # "idle" =>
        IF \A a \in 1..Len(mergeIn) : Len(mergeIn[a]) = Len(mergeIn[1])
        THEN mergeExc = "none" /\ Len(mergeOut) = Len(mergeIn[1])
        ELSE mergeExc = "AssertionError" /\ mergeArgs = mergeIn

\* C10 witness: three lists, the first two of length 2 and the third shorter:
\* the call failed with the length-mismatch error.
C10_Witness ==
    /\ Len(mergeIn) = 3
    /\ Len(mergeIn[1]) = 2 /\ Len(mergeIn[2]) = 2 /\ Len(mergeIn[3]) = 1
    /\ mergeExc = "AssertionError"

\* a field counts as touched by a source when that source's parser stored
\* notes in it: an alignment mapping, or a list that holds notes
Touched(v) == v.tag = "dict" \/ (v.tag = "atom" /\ v.id % 10 # 0)

\* the values the sources hold for field key of record i, in source order
SourceValues(i, key) == [a \in 1..Len(mergeIn) |-> mergeIn[a][i][key]]

\* C11: after merging N lists, for every record position and field key, a
\* field touched by exactly one source holds that source's value itself, and
\* a field touched by k >= 2 sources is one flat sequence of exactly those k
\* values in source order (never a nested [[v1, v2], v3]).
C11_MergeFlat ==
    mergeExc = "none" =>
        \A i \in 1..Len(mergeOut) : \A key \in Keys :
            LET touched == SelectSeq(SourceValues(i, key), Touched)
            IN  /\ Len(touched) = 1 => mergeOut[i][key] = touched[1]
                /\ Len(touched) >= 2 => mergeOut[i][key] = List(touched)

\* C16: when the sources' values of a field are mappings, the merged field is
\* again a mapping with the same keys, each inner field merged by the same
\* rule, and not a sequence of the sources' whole mappings.
C16_MergeRecurses ==
    (mergeExc = "none" /\ Len(mergeIn) >= 2) =>
        \A i \in 1..Len(mergeOut) : \A key \in Keys :
            (\A a \in 1..Len(mergeIn) : mergeIn[a][i][key].tag = "dict") =>
                /\ mergeOut[i][key].tag = "dict"
                /\ Len(mergeOut[i][key].items) = Len(mergeIn[1][i][key].items)
                /\ \A f \in 1..Len(mergeOut[i][key].items) :
                      mergeOut[i][key].items[f] =
                          List([a \in 1..Len(mergeIn) |-> mergeIn[a][i][key].items[f]])

-----------------------------------------------------------------------------
(* Properties that relate a filter call to its criteria *)

\* the kinds a ground-truth requirement names
RequestedKinds(c) == { c.ground_truth[i][1] : i \in 1..Len(c.ground_truth) }

\* the dataset passes the dataset-level criteria: the allow-list overrides
\* its flag, the ensemble matches and every requested level is present and
\* equal
IncludedDataset(obj, c, d) ==
    /\ IF c.datasets # {} THEN d \in c.datasets ELSE obj.dincl[d]
    /\ (c.ensemble # "None" => c.ensemble = BoolStr(Ensemble(d)))
    /\ \A i \in 1..Len(c.ground_truth) :
          /\ c.ground_truth[i][1] \in GroundTruthKinds(d)
          /\ GroundTruthLevel(d, c.ground_truth[i][1]) = c.ground_truth[i][2]

\* the song passes the song-level criteria
SongSatisfies(obj, c, d, s) ==
    /\ obj.sincl[d][s]
    /\ (c.instruments = <<>> \/ Instruments(d, s) = c.instruments)
    /\ (c.composer = <<>> \/ IsSubstring(c.composer, Composer(d, s)))
    /\ \A i \in 1..Len(c.groups) : c.groups[i] \in Groups(d, s)

\* the songs that are to have a row, in corpus order
RECURSIVE ExpectedRows(_, _, _, _)
ExpectedRows(obj, c, d, s) ==
    IF d > NDatasets THEN <<>>
    ELSE IF s > NumSongs(d) THEN ExpectedRows(obj, c, d + 1, 1)
    ELSE IF IncludedDataset(obj, c, d) /\ SongSatisfies(obj, c, d, s)
         THEN <<<<d, s>>>> \o ExpectedRows(obj, c, d, s + 1)
         ELSE ExpectedRows(obj, c, d, s + 1)

\* the songs of the rows of a path list, in row order
RowSeq(paths) == [i \in 1..Len(paths) |-> paths[i].song]

\* C13: a filter call leaves exactly one row, in corpus order, for each song
\* of an included dataset that is included and passes the instrument,
\* composer and group criteria; every other song of an included dataset gets
\* included = false and no row; the songs of an excluded dataset keep their
\* flags.
C13_RowsFollowCriteria ==
    [][(lastCrit = <<>> /\ lastCrit' # <<>>) =>
          LET c == lastCrit'[1]
              pre == heap[1]
              post == heap'[1]
          IN  /\ RowSeq(post.paths) = ExpectedRows(pre, c, 1, 1)
              /\ \A d \in DatasetIds : \A s \in SongIds(d) :
                    IF IncludedDataset(pre, c, d)
                    THEN post.sincl[d][s] = SongSatisfies(pre, c, d, s)
                    ELSE post.sincl[d][s] = pre.sincl[d][s]
      ]_vars

\* the statement of C13 for the calls that return
RowsFollowCriteriaOnReturn ==
    [][(lastCrit = <<>> /\ lastCrit' # <<>> /\ raised' = "none") =>
          LET c == lastCrit'[1]
              pre == heap[1]
              post == heap'[1]
          IN  /\ RowSeq(post.paths) = ExpectedRows(pre, c, 1, 1)
              /\ \A d \in DatasetIds : \A s \in SongIds(d) :
                    IF IncludedDataset(pre, c, d)
                    THEN post.sincl[d][s] = SongSatisfies(pre, c, d, s)
                    ELSE post.sincl[d][s] = pre.sincl[d][s]
      ]_vars

\* the datasets whose ground_truth mapping lacks a kind the call requires
LacksKind(c) == { d \in DatasetIds : ~(RequestedKinds(c) \subseteq GroundTruthKinds(d)) }

\* C14: when the ground-truth requirements name a kind that a dataset's
\* ground_truth mapping lacks, the call raises no error for it, that dataset
\* is marked included = false and has no row, and the other datasets are
\* processed as usual.
C14_UnknownKindFailsClosed ==
    [][(lastCrit = <<>> /\ lastCrit' # <<>> /\ LacksKind(lastCrit'[1]) # {}) =>
          LET c == lastCrit'[1]
              pre == heap[1]
              post == heap'[1]
          IN  /\ raised' # "KeyError"
              /\ \A d \in LacksKind(c) :
                    /\ ~post.dincl[d]
                    /\ \A i \in 1..Len(post.paths) : post.paths[i].song[1] # d
              /\ raised' = "none" => RowSeq(post.paths) = ExpectedRows(pre, c, 1, 1)
      ]_vars

\* C15: an in-place filter call either completes or leaves every included
\* flag, the path list and the chunk map as they were before the call.
C15_NoPartialFailure ==
    [][\A r \in 1..Len(heap) :
          (lastOp'.kind = "inplace" /\ lastOp'.ref = r) =>
              raised' = "none" \/ heap'[r] = heap[r]
      ]_vars

-----------------------------------------------------------------------------
(* get_pedaling_mat.  Times, durations, hop and winlen are counted in one   *)
(* time unit; winlen is even, so that winlen / 2 is a whole number of units *)

\* Bounds of the control changes of one source
MaxEvents == 2
MaxOtherEvents == 1

Pedals == <<"sustain", "sostenuto", "soft">>

\* the times and values a control change can carry
EventTimes == {0, 3, 5, 8}
EventValues == {0, 127}
Durations == {6, 8}
HopValues == {2}
WinLenValues == {0, 4}

Min(a, b) == IF a <= b THEN a ELSE b

\* gt[pedal]: {'times': [...], 'values': [...]} with up to n control changes
PedalTracks(n) ==
    UNION { { [times |-> ts, values |-> vs] :
                ts \in [1..k -> EventTimes], vs \in [1..k -> EventValues] } :
            k \in 0..n }

\* the ground truths of one source
PedalSources(n, m) ==
    { [sustain |-> a, sostenuto |-> b, soft |-> c] :
        a \in PedalTracks(n), b \in PedalTracks(m), c \in PedalTracks(m) }

\* list(zip(gt[pedal]['times'], ..values.., [-1] * l, [-1] * l)): rows
\* <<time, sustain, sostenuto, soft>>; zip stops at the shortest list
PedalRows(gt, p) ==
    LET track == gt[Pedals[p]]
        l == Len(track.values)
    IN  [k \in 1..Min(Len(track.times), l) |->
            <<track.times[k]>> \o
            [q \in 1..3 |-> IF q = p THEN track.values[k] ELSE -1]]

\* cc_track_pedaling.sort(key=lambda row: row[0]): list.sort is stable
RECURSIVE SortByTime(_)
SortByTime(rows) ==
    IF rows = <<>> THEN <<>>
    ELSE LET k == CHOOSE a \in 1..Len(rows) :
                     /\ \A b \in 1..Len(rows) : rows[a][1] <= rows[b][1]
                     /\ \A b \in 1..(a - 1) : rows[b][1] # rows[a][1]
         IN  <<rows[k]>> \o SortByTime([j \in 1..(Len(rows) - 1) |->
                                          IF j < k THEN rows[j] ELSE rows[j + 1]])

\* the control changes of one source, sorted by time
ControlChanges(gt) ==
    SortByTime(PedalRows(gt, 1) \o PedalRows(gt, 2) \o PedalRows(gt, 3))

\* int(x) for x = num / den, den > 0: truncation towards zero
IntTrunc(num, den) == IF num >= 0 THEN num \div den ELSE -((-num) \div den)

\* round(num / den), den > 0: Python 3 rounds halves to the even neighbour
Round(num, den) ==
    LET q == num \div den
        r == num % den
    IN  IF 2 * r < den THEN q
        ELSE IF 2 * r > den THEN q + 1
        ELSE IF q % 2 = 0 THEN q ELSE q + 1

\* utils.time2frame(time, hop_size, win_len)
time2frame(time, hop_size, win_len) == Round(time - win_len \div 2, hop_size)

\* int(utils.nframes(dur, hop, winlen)) + 1
NFrames(dur, hop, winlen) == IntTrunc(dur - winlen + hop, hop) + 1

\* np.argmax(cc[1:]) + 1: the first column that holds the largest value
TypeOfCC(cc) ==
    CHOOSE q \in 1..3 :
        /\ \A o \in 1..3 : cc[q + 1] >= cc[o + 1]
        /\ \A o \in 1..(q - 1) : cc[o + 1] < cc[q + 1]

\* a slice bound of an axis of length n, as Python normalises it
SliceBound(k, n) == IF k < 0 THEN Max(k + n, 0) ELSE Min(k, n)

\* frame_track_pedaling[start:stop, col] = val
SliceAssign(mat, start, stop, col, val) ==
    LET n == Len(mat)
        lo == SliceBound(start, n)
        hi == SliceBound(stop, n)
    IN  [i \in 1..n |->
            IF lo <= i - 1 /\ i - 1 < hi
            THEN [mat[i] EXCEPT ![col + 1] = val] ELSE mat[i]]

\* for cc in cc_track_pedaling: ... (lines 376-387)
RECURSIVE HoldLoop(_, _, _, _, _, _)
HoldLoop(mat, last, ccs, k, hop, winlen) ==
    IF k > Len(ccs) THEN [mat |-> mat, last |-> last]
    ELSE LET cc == ccs[k]
             frame_idx == time2frame(cc[1], hop, winlen)
             type_of_cc == TypeOfCC(cc)
         IN  HoldLoop(
                 SliceAssign(mat, last[type_of_cc].time, frame_idx, type_of_cc,
                             last[type_of_cc].value),
                 [last EXCEPT ![type_of_cc] =
                     [time |-> frame_idx, value |-> cc[type_of_cc + 1]]],
                 ccs, k + 1, hop, winlen)

\* for type_of_cc in range(1, 4): frame_track_pedaling[last.time:, type] = value
RECURSIVE HoldTail(_, _, _)
HoldTail(mat, last, q) ==
    IF q > 3 THEN mat
    ELSE HoldTail(SliceAssign(mat, last[q].time, Len(mat), q, last[q].value),
                  last, q + 1)

\* the frame matrix of one source (lines 349-396)
FrameTrack(gt, dur, hop, winlen) ==
    LET ccs == ControlChanges(gt)
        n_frames == NFrames(dur, hop, winlen)
        zeros == [i \in 1..n_frames |-> <<(i - 1) * hop + winlen \div 2, 0, 0, 0>>]
        held == HoldLoop(zeros, [q \in 1..3 |-> [time |-> 0, value |-> 0]],
                         ccs, 1, hop, winlen)
    IN  IF Len(ccs) > 0 THEN HoldTail(held.mat, held.last, 1) ELSE held.mat

\* get_pedaling_mat(dataset, idx, frame_based, winlen, hop)
GetPedalingMat(gts, frame_based, dur, hop, winlen) ==
    /\ pedalIn' = [gts |-> gts, frame_based |-> frame_based, dur |-> dur,
                   hop |-> hop, winlen |-> winlen]
    /\ IF frame_based /\ NFrames(dur, hop, winlen) < 0
       THEN pedalOut' = <<>> /\ pedalExc' = "ValueError"
       ELSE /\ pedalOut' = [a \in 1..Len(gts) |->
                              IF frame_based
                              THEN FrameTrack(gts[a], dur, hop, winlen)
                              ELSE ControlChanges(gts[a])]
            /\ pedalExc' = "none"
    /\ UNCHANGED <<filterVars, scoreVars, choseVars, mergeVars, callVars>>

NextPedal ==
    /\ pedalExc = "idle"
    /\ \E frame_based \in BOOLEAN, dur \in Durations, hop \in HopValues,
          winlen \in WinLenValues :
          \/ \E g \in PedalSources(MaxEvents, MaxOtherEvents) :
                GetPedalingMat(<<g>>, frame_based, dur, hop, winlen)
          \/ \E g1, g2 \in PedalSources(MaxOtherEvents, 0) :
                GetPedalingMat(<<g1, g2>>, frame_based, dur, hop, winlen)

SpecPedal == Init /\ [][NextPedal]_vars

\* the pedal type of a control change: the column it sets
EventType(cc) == CHOOSE q \in 1..3 : cc[q + 1] # -1

\* the value frame i of type q holds under a zero-order hold of the control
\* changes ccs (in time order): that of the latest one of type q whose frame
\* is at most i, and 0 when there is none
HeldValue(ccs, q, i, hop, winlen) ==
    LET before == { k \in 1..Len(ccs) :
                      /\ EventType(ccs[k]) = q
                      /\ time2frame(ccs[k][1], hop, winlen) <= i }
    IN  IF before = {} THEN 0
        ELSE ccs[CHOOSE k \in before : \A o \in before : o <= k][q + 1]

\* C12: in frame mode, for every source, pedal type and frame i, the type's
\* column holds the value of the latest control change of that type whose
\* frame index is at most i, and 0 when there is none, whatever the event
\* times are.
C12_ZeroOrderHold ==
    (pedalExc = "none" /\ pedalIn.frame_based) =>
        \A a \in 1..Len(pedalOut) :
            LET ccs == ControlChanges(pedalIn.gts[a])
            IN  \A i \in 0..(Len(pedalOut[a]) - 1) : \A q \in 1..3 :
                    pedalOut[a][i + 1][q + 1] =
                        HeldValue(ccs, q, i, pedalIn.hop, pedalIn.winlen)

=============================================================================
